---------------------------- MODULE Spec2Model ----------------------------
(***************************************************************************)
(* Model of haufe.requestmonitoring's timelogging.py: the request timing   *)
(* table (_state) guarded by _lock, the three publication event handlers,  *)
(* the activation handler and the log sink.                                *)
(*                                                                         *)
(* The host (ZPublisher) processes each request on one worker thread and   *)
(* publishes that request's events from it, one after the other; the       *)
(* handlers of different requests interleave statement by statement.  The  *)
(* code never looks at the thread it runs on, so a request stands for the  *)
(* thread that processes it.  Events may arrive in any order, and the      *)
(* ticket ids of the two requests may coincide.                            *)
(*                                                                         *)
(* Ghost state (not in the program): begun, the per-id state machine of    *)
(* the lifecycle (absent or started, with the time the start call          *)
(* captured), and calls, how many start and terminal calls it has taken;   *)
(* propagated, the exception that last left a handler; logEv, the event    *)
(* behind each record; in a frame, ev, ans, pre and paired: the event      *)
(* being handled, what IStatus answered, the response as the event found   *)
(* it, the start time the state machine pairs the call with.               *)
(* The timestamp prefix of a record (strftime) is not modelled, and time   *)
(* passes only where it is read.                                           *)
(***************************************************************************)
EXTENDS Integers, Sequences, FiniteSets, TLC

\* ---------------------------------------------------------------- bounds
\* time() runs from 0 to MaxTime
MaxTime == 2
\* events the host publishes
MaxEvents == 3
\* events the host publishes when it keeps to start-then-terminal sequences
MaxPairEvents == 4
\* events the host publishes where progress under fair scheduling is checked
MaxFairEvents == 2

Requests == {"r1", "r2"}
Ids == {1, 2}

\* ------------------------------------------------------- program constants
STDERR == "/dev/stderr"
FILEBASE == "/var/log/timelogging"
RETRY_STATUS == 390

NoConfig == "absent"
NoLogfile == "None"
NoThread == "free"
NoAnswer == "None"

\* ------------------------------------------------------------ collaborators
\* IInfo(request), rendered with str()
IInfo(r) == IF r = "r1" THEN "GET /a" ELSE "GET /b"

\* response.__dict__: the response's instance attributes
RawStatuses == {0, 200}
Reason(code) ==
    CASE code = 200 -> "OK"
      [] code = 404 -> "Not Found"
      [] code = 500 -> "Internal Server Error"
      [] OTHER -> "Unknown"

\* the exception classes a failure event may carry, and the code setStatus
\* derives from them
ExcTypes == {"NotFound", "ValueError"}
ExcCode(exc) == IF exc = "NotFound" THEN 404 ELSE 500

\* What the IStatus adapter lookup may yield for a response: None (no
\* adapter registered, the default), or the registered adapter's answer,
\* a value int() accepts or one it rejects.
Answers == {NoAnswer, "0", "204", "n/a"}

\* int() on the answers that occur
IsIntLiteral(s) == s \in {"0", "204"}
IntOf(s) ==
    CASE s = "0" -> 0
      [] s = "204" -> 204
      [] OTHER -> -1

VARIABLES
    product_config,  \* the "timelogging" product-config section's filebase
    ticket,          \* ITicket(request).id, per request
    response,        \* request.response.__dict__, per request
    clock,           \* time()
    lock,            \* _lock: the request whose thread holds it
    state,           \* _state: id -> start time
    logfile,         \* _logfile
    handlers,        \* the handlers provideHandler has registered
    log,             \* what the sink received, in order
    apc,             \* position of start_timelogging
    pc,              \* position of each request's thread
    frame,           \* locals of each request's thread
    published,       \* events published so far
    logEv,           \* ghost: the event behind each record of log
    begun,           \* ghost: id -> ct of the start call a terminal call pairs with
    calls,           \* ghost: id -> start and terminal calls taken so far
    propagated       \* ghost: the exception that last left a handler, and its event

vars == <<product_config, ticket, response, clock, lock, state,
          logfile, handlers, log, apc, pc, frame, published, logEv, begun, calls,
          propagated>>

env == <<product_config, ticket>>
ghost == <<begun, calls, propagated>>

\* ------------------------------------------------------------------ events
\* kind: start (IPubStart), success (IPubSuccess), retry and failure
\* (IPubFailure with and without its retry flag); exc: exc_info[0]
Events ==
    [kind : {"start", "success"}, exc : {"-"}]
        \cup [kind : {"retry", "failure"}, exc : ExcTypes]
NoEvent == [kind |-> "-", exc |-> "-"]

EmptyDict == [status |-> 0, errmsg |-> "-"]
NoException == [kind |-> "-", exc |-> ""]

IdleFrame ==
    [ev |-> NoEvent, ans |-> NoAnswer, status |-> 0, id |-> 0, info |-> "",
     type |-> "", ct |-> 0, request_time |-> 0, saved |-> EmptyDict, exc |-> "",
     paired |-> 0, pre |-> EmptyDict]

Init ==
    /\ product_config \in {NoConfig, STDERR, FILEBASE}
    /\ ticket \in {f \in [Requests -> Ids] : f["r1"] = 1}
    /\ response \in [Requests -> {[status |-> s, errmsg |-> Reason(s)] : s \in RawStatuses}]
    /\ response["r2"].status = 200
    /\ clock = 0
    /\ lock = NoThread
    /\ state = [i \in {} |-> 0]
    /\ logfile = NoLogfile
    /\ handlers = {}
    /\ log = <<>>
    /\ apc = "start"
    /\ pc = [r \in Requests |-> "idle"]
    /\ frame = [r \in Requests |-> IdleFrame]
    /\ published = 0
    /\ logEv = <<>>
    /\ begun = [i \in {} |-> 0]
    /\ calls = [i \in Ids |-> [starts |-> 0, ends |-> 0]]
    /\ propagated = NoException

\* ------------------------------------------------------- the code's pieces
\* fault: the two record types exchanged
TypeOfSwapped(status) == IF status # 0 THEN "+" ELSE "-"

\* type = status and '-' or '+'
TypeOf(status) == IF status # 0 THEN "-" ELSE "+"

\* response.getStatus()
GetStatus(resp) == resp["status"]

\* fault: the adapter's answer ignored
ResolveStatusRaw(ans, resp) == GetStatus(resp)

\* status = IStatus(response, None); if None: getStatus() else int(status)
ResolveStatus(ans, resp) == IF ans = NoAnswer THEN GetStatus(resp) ELSE IntOf(ans)

\* fault: the assertion left out
AssertOkAlways(status) == TRUE

\* assert status
AssertOk(status) == status # 0

\* saved = response.__dict__.copy()
DictCopy(d) == [k \in DOMAIN d |-> d[k]]

\* response.setStatus(event.exc_info[0])
SetStatus(resp, exc) ==
    [k \in DOMAIN resp \cup {"status", "errmsg"} |->
        CASE k = "status" -> ExcCode(exc)
          [] k = "errmsg" -> Reason(ExcCode(exc))
          [] OTHER -> resp[k]]

\* fault: nothing restored
DictUpdateNothing(d, saved) == d

\* response.__dict__.update(saved)
DictUpdate(d, saved) ==
    [k \in DOMAIN d \cup DOMAIN saved |-> IF k \in DOMAIN saved THEN saved[k] ELSE d[k]]

\* account_request(request, 390)
RetryStatus == RETRY_STATUS

\* fault: the operands of the subtraction exchanged
DurationReversed(ct, tbl, id) == tbl[id] - ct

\* request_time = ct - _state[id]
Duration(ct, tbl, id) == ct - tbl[id]

\* fault: the start time not stored
TableInsertNothing(tbl, id, ct) == tbl

\* fault: an open entry kept as it is
TableInsertOnce(tbl, id, ct) ==
    [i \in DOMAIN tbl \cup {id} |-> IF i \in DOMAIN tbl THEN tbl[i] ELSE ct]

\* fault: one slot shared by all ids
TableInsertShared(tbl, id, ct) == [i \in DOMAIN tbl \cup {id} |-> ct]

\* _state[id] = ct
TableInsert(tbl, id, ct) ==
    [i \in DOMAIN tbl \cup {id} |-> IF i = id THEN ct ELSE tbl[i]]

\* fault: every entry deleted
TableDeleteAll(tbl, id) == [i \in {} |-> 0]

\* fault: the entry not deleted
TableDeleteNothing(tbl, id) == tbl

\* del _state[id]
TableDelete(tbl, id) == [i \in DOMAIN tbl \ {id} |-> tbl[i]]

\* _lock.acquire() returns only when the lock is free
CanAcquire(l) == l = NoThread

\* fault: the lock not released
ReleasedNot(l) == l

\* _lock.release()
Released(l) == NoThread

\* the fields _log formats into a line
LogRecord(type, status, request_id, request_time, info) ==
    [type |-> type, status |-> status, request_time |-> request_time,
     request_id |-> request_id, info |-> info]

\* fault: the sink puts a new record before the older ones
SinkWritePrepend(sink, file, rec) == IF file # NoLogfile THEN <<rec>> \o sink ELSE sink

\* if _logfile is not None: write (to the logger or to the rotating file)
SinkWrite(sink, file, rec) == IF file # NoLogfile THEN Append(sink, rec) ELSE sink

\* which handler an event kind is delivered to
HandlerFor(kind) ==
    CASE kind = "start" -> "handle_request_start"
      [] kind = "success" -> "handle_request_success"
      [] OTHER -> "handle_request_failure"

\* ------------------------------------------------------------- activation
\* fault: the configuration not looked at
ConfiguredAlways(cfg) == TRUE

\* if config is None: return
Configured(cfg) == cfg # NoConfig

\* fault: the marker written like a start record
RestartedAsStart == LogRecord("+", 0, 0, 0, "restarted")

\* the fields of _log('0', info='restarted'): the first positional
\* parameter of _log is type, the others keep their defaults
Restarted == LogRecord("0", 0, 0, 0, "restarted")

\* _logfile.write(string) may raise (the rotating file cannot be opened or
\* written); _LOGGER.info does not, logging handles its handlers' errors
CanFail(file) == file = "Rotator"

\* start_timelogging: read the configuration, set up _logfile
StartTimelogging ==
    /\ apc = "start"
    /\ IF ~Configured(product_config)
       THEN /\ apc' = "done"
            /\ UNCHANGED logfile
       ELSE /\ logfile' = IF product_config = STDERR THEN STDERR ELSE "Rotator"
            /\ apc' = "marker"
    /\ UNCHANGED <<ghost, env, response, clock, lock, state, handlers, log, pc, frame,
                   published, logEv>>

\* _log('0', info='restarted')
LogRestarted ==
    /\ apc = "marker"
    /\ log' = SinkWrite(log, logfile, Restarted)
    /\ logEv' = IF Len(log') > Len(log)
                THEN Append(logEv, [kind |-> "restart", exc |-> "-", ans |-> NoAnswer,
                                    raw |-> 0, ct |-> 0, paired |-> 0])
                ELSE logEv
    /\ apc' = "register"
    /\ UNCHANGED <<ghost, env, response, clock, lock, state, logfile, handlers, pc, frame,
                   published>>

\* _log('0', info='restarted') when the write raises: the exception leaves
\* start_timelogging before any handler is registered
LogRestartedFail ==
    /\ apc = "marker"
    /\ CanFail(logfile)
    /\ propagated' = [kind |-> "restart", exc |-> "IOError"]
    /\ apc' = "done"
    /\ UNCHANGED <<begun, calls, env, response, clock, lock, state, logfile, handlers,
                   log, pc, frame, published, logEv>>

\* provideHandler(handle_request_start), (..._success), (..._failure)
ProvideHandlers ==
    /\ apc = "register"
    /\ handlers' = handlers \cup {"handle_request_start", "handle_request_success",
                                  "handle_request_failure"}
    /\ apc' = "done"
    /\ UNCHANGED <<ghost, env, response, clock, lock, state, logfile, log, pc, frame,
                   published, logEv>>

\* ---------------------------------------------------------------- handlers
\* handle_request_success and the not-retried branch of
\* handle_request_failure resolve a status before they call account_request
Resolves(e) == e.kind \in {"success", "failure"}

\* fault: the status not forced
ForcedNot(e, resp) == resp

\* the response as handle_request_success finds it
Forced(e, resp) == IF e.kind = "failure" THEN SetStatus(resp, e.exc) ELSE resp

\* fault: the retry branch missing
CallStatusNoRetry(e, ans, resp) ==
    IF e.kind = "start" THEN 0 ELSE ResolveStatus(ans, Forced(e, resp))

\* the status account_request is called with, ans being what
\* IStatus(response, None) yields
CallStatus(e, ans, resp) ==
    CASE e.kind = "start" -> 0
      [] e.kind = "retry" -> RetryStatus
      [] OTHER -> ResolveStatus(ans, Forced(e, resp))

\* the exception that ends the handler before account_request, "" if none:
\* int(status) raises ValueError, assert status raises AssertionError
EarlyExc(e, ans, resp) ==
    IF ~Resolves(e) THEN ""
    ELSE IF ans # NoAnswer /\ ~IsIntLiteral(ans) THEN "ValueError"
    ELSE IF ~AssertOk(CallStatus(e, ans, resp)) THEN "AssertionError"
    ELSE ""

\* The host publishes event e of request r.  The registered handler, if
\* any, runs its thread-local prefix: handle_request_failure saves and
\* forces the response, handle_request_success resolves and asserts the
\* status, account_request resolves id and info and reads the time, now;
\* the thread then stands before _lock.acquire(), or the handler has raised.
Handle(r, e, ans, now) ==
    /\ pc[r] = "idle"
    /\ published' = published + 1
    /\ IF HandlerFor(e.kind) \in handlers
       THEN /\ response' = [response EXCEPT ![r] = Forced(e, @)]
            /\ IF EarlyExc(e, ans, response[r]) # ""
               THEN /\ propagated' = [kind |-> e.kind,
                                        exc |-> EarlyExc(e, ans, response[r])]
                    /\ UNCHANGED <<pc, frame, clock>>
               ELSE /\ frame' = [frame EXCEPT ![r] =
                           [ev |-> e,
                            ans |-> ans,
                            status |-> CallStatus(e, ans, response[r]),
                            id |-> ticket[r],
                            info |-> IInfo(r),
                            type |-> TypeOf(CallStatus(e, ans, response[r])),
                            ct |-> now,
                            request_time |-> 0,
                            saved |-> IF e.kind = "failure" THEN DictCopy(response[r])
                                      ELSE EmptyDict,
                            exc |-> "",
                            paired |-> 0,
                            pre |-> response[r]]]
                    /\ pc' = [pc EXCEPT ![r] = "acquire"]
                    /\ clock' = now
                    /\ UNCHANGED propagated
       ELSE UNCHANGED <<response, pc, frame, propagated, clock>>
    /\ UNCHANGED <<begun, calls, product_config, ticket, lock, state, logfile,
                   handlers, log, apc, logEv>>

\* the host publishes any event at any time
Dispatch(r, e, ans, now) ==
    /\ published < MaxEvents
    /\ Handle(r, e, ans, now)

\* the host publishes any event at any time, fewer of them
DispatchFair(r, e, ans, now) ==
    /\ published < MaxFairEvents
    /\ Handle(r, e, ans, now)

\* the host publishes one start event per id, and terminal events for an
\* id that is open, once the handlers are registered
DispatchInOrder(r, e, ans, now) ==
    /\ published < MaxPairEvents
    /\ HandlerFor(e.kind) \in handlers
    /\ IF e.kind = "start"
       THEN ticket[r] \notin DOMAIN begun /\ calls[ticket[r]].starts = 0
       ELSE ticket[r] \in DOMAIN begun
    /\ Handle(r, e, ans, now)

\* _lock.acquire()
Acquire(r) ==
    /\ pc[r] = "acquire"
    /\ CanAcquire(lock)
    /\ lock' = r
    /\ pc' = [pc EXCEPT ![r] = "table"]
    /\ UNCHANGED <<ghost, env, response, clock, state, logfile, handlers, log, apc, frame,
                   published, logEv>>

\* if status: request_time = ct - _state[id] (KeyError when id is not in
\* the table)   else: _state[id] = ct
TableOp(r) ==
    /\ pc[r] = "table"
    /\ LET f == frame[r]
       IN  /\ begun' = IF f.ev.kind = "start"
                       THEN [i \in DOMAIN begun \cup {f.id} |->
                                IF i = f.id THEN f.ct ELSE begun[i]]
                       ELSE [i \in DOMAIN begun \ {f.id} |-> begun[i]]
           /\ calls' = IF f.ev.kind = "start"
                       THEN [calls EXCEPT ![f.id].starts = @ + 1]
                       ELSE IF f.id \in DOMAIN begun
                       THEN [calls EXCEPT ![f.id].ends = @ + 1]
                       ELSE calls
           /\ IF f.status # 0
              THEN IF f.id \in DOMAIN state
                   THEN /\ frame' = [frame EXCEPT
                               ![r].request_time = Duration(f.ct, state, f.id),
                               ![r].paired = IF f.id \in DOMAIN begun
                                             THEN begun[f.id] ELSE -1]
                        /\ pc' = [pc EXCEPT ![r] = "del"]
                        /\ UNCHANGED state
                   ELSE /\ frame' = [frame EXCEPT ![r].exc = "KeyError"]
                        /\ pc' = [pc EXCEPT ![r] = "raise"]
                        /\ UNCHANGED state
              ELSE /\ state' = TableInsert(state, f.id, f.ct)
                   /\ pc' = [pc EXCEPT ![r] = "release"]
                   /\ UNCHANGED frame
    /\ UNCHANGED <<propagated, env, response, clock, lock, logfile, handlers, log, apc,
                   published, logEv>>

\* del _state[id]
Delete(r) ==
    /\ pc[r] = "del"
    /\ IF frame[r].id \in DOMAIN state
       THEN /\ state' = TableDelete(state, frame[r].id)
            /\ pc' = [pc EXCEPT ![r] = "release"]
            /\ UNCHANGED frame
       ELSE /\ frame' = [frame EXCEPT ![r].exc = "KeyError"]
            /\ pc' = [pc EXCEPT ![r] = "raise"]
            /\ UNCHANGED state
    /\ UNCHANGED <<ghost, env, response, clock, lock, logfile, handlers, log, apc,
                   published, logEv>>

\* finally: _lock.release(), on the way to _log
Release(r) ==
    /\ pc[r] = "release"
    /\ lock' = Released(lock)
    /\ pc' = [pc EXCEPT ![r] = "log"]
    /\ UNCHANGED <<ghost, env, response, clock, state, logfile, handlers, log, apc, frame,
                   published, logEv>>

\* fault: no release on the way out by exception
FinallySkipped(l) == l

\* try: ... finally: _lock.release() runs the release on the way out by
\* exception too
Finally(l) == Released(l)

\* fault: the exception swallowed
RaisedNothing(f) == NoException

\* the exception of a frame, as it reaches the caller of the handler
Raised(f) == [kind |-> f.ev.kind, exc |-> f.exc]

\* finally: _lock.release(), with the KeyError in flight: it leaves
\* account_request and the handlers above it, past the restore of
\* handle_request_failure
ReleaseRaise(r) ==
    /\ pc[r] = "raise"
    /\ lock' = Finally(lock)
    /\ propagated' = Raised(frame[r])
    /\ pc' = [pc EXCEPT ![r] = "idle"]
    /\ frame' = [frame EXCEPT ![r] = IdleFrame]
    /\ UNCHANGED <<begun, calls, env, response, clock, state, logfile, handlers, log,
                   apc, published, logEv>>

\* where a handler goes after account_request has returned
AfterLog(e) == IF e.kind = "failure" THEN "restore" ELSE "idle"

\* _log(type=type, status=status, request_id=id, request_time=..., info=info);
\* handle_request_start, handle_request_success and the retry branch of
\* handle_request_failure return after it
Log(r) ==
    /\ pc[r] = "log"
    /\ LET f == frame[r]
       IN  log' = SinkWrite(log, logfile,
                   LogRecord(f.type, f.status, f.id, f.request_time, f.info))
    /\ logEv' = IF Len(log') > Len(log)
                THEN Append(logEv, [kind |-> frame[r].ev.kind, exc |-> frame[r].ev.exc,
                                    ans |-> frame[r].ans,
                                    raw |-> GetStatus(frame[r].pre),
                                    ct |-> frame[r].ct, paired |-> frame[r].paired])
                ELSE logEv
    /\ pc' = [pc EXCEPT ![r] = AfterLog(frame[r].ev)]
    /\ frame' = IF AfterLog(frame[r].ev) = "idle"
                THEN [frame EXCEPT ![r] = IdleFrame] ELSE frame
    /\ UNCHANGED <<ghost, env, response, clock, lock, state, logfile, handlers, apc,
                   published>>

\* _log(...) when the write raises: the exception leaves _log,
\* account_request and the handler, past the restore of
\* handle_request_failure; nothing catches it and nothing retries the write
LogFail(r) ==
    /\ pc[r] = "log"
    /\ CanFail(logfile)
    /\ propagated' = Raised([frame[r] EXCEPT !.exc = "IOError"])
    /\ pc' = [pc EXCEPT ![r] = "idle"]
    /\ frame' = [frame EXCEPT ![r] = IdleFrame]
    /\ UNCHANGED <<begun, calls, env, response, clock, lock, state, logfile, handlers,
                   log, apc, published, logEv>>

\* response.__dict__.update(saved); handle_request_failure returns
Restore(r) ==
    /\ pc[r] = "restore"
    /\ response' = [response EXCEPT ![r] = DictUpdate(@, frame[r].saved)]
    /\ pc' = [pc EXCEPT ![r] = "idle"]
    /\ frame' = [frame EXCEPT ![r] = IdleFrame]
    /\ UNCHANGED <<ghost, env, clock, lock, state, logfile, handlers, log, apc,
                   published, logEv>>

Next ==
    \/ StartTimelogging
    \/ LogRestarted
    \/ LogRestartedFail
    \/ ProvideHandlers
    \/ \E r \in Requests, e \in Events :
          \E ans \in (IF Resolves(e) THEN Answers ELSE {NoAnswer}), now \in clock..MaxTime :
              Dispatch(r, e, ans, now)
    \/ \E r \in Requests : Acquire(r)
    \/ \E r \in Requests : TableOp(r)
    \/ \E r \in Requests : Delete(r)
    \/ \E r \in Requests : Release(r)
    \/ \E r \in Requests : ReleaseRaise(r)
    \/ \E r \in Requests : Log(r)
    \/ \E r \in Requests : LogFail(r)
    \/ \E r \in Requests : Restore(r)

Spec == Init /\ [][Next]_vars

NextInOrder ==
    \/ StartTimelogging
    \/ LogRestarted
    \/ ProvideHandlers
    \/ \E r \in Requests, e \in Events :
          \E ans \in (IF Resolves(e) THEN Answers ELSE {NoAnswer}), now \in clock..MaxTime :
              DispatchInOrder(r, e, ans, now)
    \/ \E r \in Requests : Acquire(r)
    \/ \E r \in Requests : TableOp(r)
    \/ \E r \in Requests : Delete(r)
    \/ \E r \in Requests : Release(r)
    \/ \E r \in Requests : ReleaseRaise(r)
    \/ \E r \in Requests : Log(r)
    \/ \E r \in Requests : Restore(r)

\* a configured host whose responses carry a status
InitInOrder ==
    /\ Init
    /\ product_config # NoConfig
    /\ \A r \in Requests : response[r].status # 0

\* the host keeps to start-then-terminal sequences per id, and the sink
\* accepts every write
SpecInOrder == InitInOrder /\ [][NextInOrder]_vars

NextFair ==
    \/ StartTimelogging
    \/ LogRestarted
    \/ LogRestartedFail
    \/ ProvideHandlers
    \/ \E r \in Requests, e \in Events :
          \E ans \in (IF Resolves(e) THEN Answers ELSE {NoAnswer}), now \in clock..MaxTime :
              DispatchFair(r, e, ans, now)
    \/ \E r \in Requests : Acquire(r)
    \/ \E r \in Requests : TableOp(r)
    \/ \E r \in Requests : Delete(r)
    \/ \E r \in Requests : Release(r)
    \/ \E r \in Requests : ReleaseRaise(r)
    \/ \E r \in Requests : Log(r)
    \/ \E r \in Requests : LogFail(r)
    \/ \E r \in Requests : Restore(r)

\* A thread inside account_request is runnable from the acquire to the
\* release and the scheduler runs every runnable thread; a thread waiting
\* in _lock.acquire() gets the lock if it stays free.  Nothing obliges the
\* host to publish events, the sink to answer or a handler to be called.
Fairness ==
    \A r \in Requests :
        /\ WF_vars(Acquire(r))
        /\ WF_vars(TableOp(r))
        /\ WF_vars(Delete(r))
        /\ WF_vars(Release(r))
        /\ WF_vars(ReleaseRaise(r))

SpecFair == Init /\ [][NextFair]_vars /\ Fairness

\* ------------------------------------------------------------- properties
Records == 1..Len(log)
Terminals == {"success", "retry", "failure"}
Quiescent == \A r \in Requests : pc[r] = "idle"
Starts(i) == {k \in Records : log[k].type = "+" /\ log[k].request_id = i}
Ends(i) == {k \in Records : log[k].type = "-" /\ log[k].request_id = i}
\* threads that have read a start time for id i and not yet logged it
Pending(i) ==
    {r \in Requests : pc[r] \in {"del", "release", "log"} /\ frame[r].id = i
                       /\ frame[r].ev.kind \in Terminals}

\* every record has the event behind it
TypeOK ==
    /\ Len(logEv) = Len(log)
    /\ lock \in Requests \cup {NoThread}
    /\ clock \in 0..MaxTime
    /\ DOMAIN state \subseteq Ids

\* C1: the request_time of a terminal record (success, failure, retry) is
\* the time its account_request call captured minus the time captured by
\* the start call for the same id that immediately preceded it.
C1_Pairing ==
    /\ \A k \in Records :
          logEv[k].kind \in Terminals =>
              /\ logEv[k].paired >= 0
              /\ log[k].request_time = logEv[k].ct - logEv[k].paired
    /\ \A i \in Ids : \A r \in Pending(i) :
          /\ frame[r].paired >= 0
          /\ frame[r].request_time = frame[r].ct - frame[r].paired

\* a request started twice and then concluded: the later start is paired
C1_Witness ==
    \E k \in Records :
        /\ logEv[k].kind \in Terminals
        /\ calls[log[k].request_id].starts = 2
        /\ logEv[k].ct = 2
        /\ log[k].request_time = 1

\* C2: start/terminal pairs on distinct ids, interleaved in any way, give
\* one start record per start call and one terminal record per terminal
\* call, no terminal call misses its entry, and each terminal record's
\* duration is measured from the start record of its own id.
C2_Exclusivity ==
    (Quiescent /\ ticket["r1"] # ticket["r2"]) =>
        /\ propagated.exc # "KeyError"
        /\ \A i \in Ids :
              /\ Cardinality(Starts(i)) = calls[i].starts
              /\ Cardinality(Ends(i)) = calls[i].ends
              /\ \A k \in Ends(i) :
                    \E j \in Starts(i) :
                        /\ j < k
                        /\ log[k].request_time = logEv[k].ct - logEv[j].ct

\* two pairs on two ids, the second opened while the first was open, both
\* concluded, with different durations
C2_Witness ==
    /\ Quiescent
    /\ ticket["r1"] # ticket["r2"]
    /\ \A i \in Ids : Cardinality(Starts(i)) = 1 /\ Cardinality(Ends(i)) = 1
    /\ \E k1 \in Ends(1), k2 \in Ends(2), j1 \in Starts(1), j2 \in Starts(2) :
          /\ j1 < j2 /\ j2 < k1 /\ k1 < k2
          /\ log[k1].request_time = 1
          /\ log[k2].request_time = 2
          /\ logEv[j2].ct = 0

\* C3: the terminal records of an id, together with the terminal calls
\* that hold a duration and have not logged it yet, never outnumber the
\* start calls of that id, and a terminal call that finds no entry holds no
\* duration.
C3_NoDoubleAccounting ==
    /\ \A i \in Ids :
          Cardinality(Ends(i)) + Cardinality(Pending(i)) <= calls[i].starts
    /\ \A r \in Requests : pc[r] = "raise" => frame[r].request_time = 0

\* two terminal calls race after one start: one is about to log its
\* duration, the other has found no entry
C3_Witness ==
    \E r, q \in Requests :
        /\ r # q
        /\ ticket[r] = ticket[q]
        /\ calls[ticket[r]].starts = 1
        /\ pc[r] = "log" /\ frame[r].ev.kind \in Terminals
        /\ frame[r].request_time = 2
        /\ pc[q] = "raise" /\ frame[q].exc = "KeyError"

\* C4: a thread holds the lock exactly while it is at the table lookup,
\* insert or delete (or leaving them); never before account_request has
\* resolved id, info, status and time, never at the write to the sink or
\* after it.
C4_LockDiscipline ==
    \A r \in Requests :
        (lock = r) <=> (pc[r] \in {"table", "del", "release", "raise"})

\* one thread writes to the sink while another is inside the critical
\* section, after a KeyError has left it
C4_Witness ==
    \E r, q \in Requests :
        /\ lock = r /\ pc[r] = "del"
        /\ pc[q] = "log"
        /\ propagated.exc = "KeyError"

\* C5: a start record has type '+', status 0 and request_time 0; a
\* terminal record has type '-' and a non-zero status; no record has
\* type '-' with status 0 or type '+' with a non-zero status.
C5_RecordShape ==
    \A k \in Records :
        /\ logEv[k].kind = "start" =>
              log[k].type = "+" /\ log[k].status = 0 /\ log[k].request_time = 0
        /\ logEv[k].kind \in Terminals => log[k].type = "-" /\ log[k].status # 0
        /\ log[k].type = "-" => log[k].status # 0
        /\ log[k].type = "+" => log[k].status = 0

\* a start record followed by a terminal record with a duration
C5_Witness ==
    \E j, k \in Records :
        /\ j < k
        /\ logEv[j].kind = "start" /\ logEv[k].kind \in Terminals
        /\ log[j].request_id = log[k].request_id
        /\ log[k].request_time > 0

\* C6: a retried failure is recorded with status 390 and type '-' whatever
\* the exception and the response's status are, and from the event to the
\* record the response stays as the event found it.
C6_RetrySentinel ==
    /\ \A k \in Records :
          logEv[k].kind = "retry" => log[k].status = RETRY_STATUS /\ log[k].type = "-"
    /\ \A r \in Requests :
          (pc[r] # "idle" /\ frame[r].ev.kind = "retry") =>
              /\ frame[r].status = RETRY_STATUS
              /\ response[r] = frame[r].pre

\* a retried failure recorded while the response holds status 0
C6_Witness ==
    \E k \in Records :
        /\ logEv[k].kind = "retry"
        /\ logEv[k].raw = 0
        /\ logEv[k].exc = "NotFound"
        /\ log[k].status = 390

\* C7: the status of a success record is the adapter's answer as an
\* integer when IStatus answers, and the response's own status exactly
\* when it does not.
C7_SuccessStatus ==
    \A k \in Records :
        logEv[k].kind = "success" =>
            /\ logEv[k].ans # NoAnswer => log[k].status = IntOf(logEv[k].ans)
            /\ logEv[k].ans = NoAnswer => log[k].status = logEv[k].raw

\* the adapter's answer differs from the response's status and wins
C7_Witness ==
    \E k \in Records :
        /\ logEv[k].kind = "success"
        /\ logEv[k].ans = "204"
        /\ logEv[k].raw = 200
        /\ log[k].status = 204

\* C8: a success event whose resolved status is zero never reaches
\* account_request: the step that raises the AssertionError writes no
\* record and leaves the table, with the entry of the request, and the
\* lock as they were.
C8_ZeroStatus ==
    [][/\ \A r \in Requests :
             (pc'[r] # "idle" /\ frame'[r].ev.kind = "success") => frame'[r].status # 0
       /\ (published' # published /\ pc' = pc /\ handlers # {}
             /\ propagated' = [kind |-> "success", exc |-> "AssertionError"]) =>
                 /\ state' = state
                 /\ log' = log
                 /\ lock' = lock
                 /\ begun' = begun
                 /\ calls' = calls]_vars

\* a start and then a success with status zero: the assertion has failed,
\* the start record is the only one and the entry is still open
C8_Witness ==
    /\ published = 2
    /\ Quiescent
    /\ propagated = [kind |-> "success", exc |-> "AssertionError"]
    /\ DOMAIN state = {1}
    /\ Cardinality(Starts(1)) = 1
    /\ \A i \in Ids : Ends(i) = {}

\* C9 as stated: the status of a failure record is the code derived from
\* the exception, in every case.
C9_Original ==
    \A k \in Records :
        logEv[k].kind = "failure" => log[k].status = ExcCode(logEv[k].exc)

\* C9: the status of a failure record is what the success path resolves
\* once the exception's code is forced on the response: the adapter's
\* answer as an integer when IStatus answers, the exception's code when it
\* does not, whatever status the response held before.
C9_FailureStatus ==
    \A k \in Records :
        logEv[k].kind = "failure" =>
            /\ logEv[k].ans = NoAnswer => log[k].status = ExcCode(logEv[k].exc)
            /\ logEv[k].ans # NoAnswer => log[k].status = IntOf(logEv[k].ans)

\* a failure recorded with the exception's code for a response that
\* held status 0
C9_Witness ==
    \E k \in Records :
        /\ logEv[k].kind = "failure"
        /\ logEv[k].ans = NoAnswer
        /\ logEv[k].raw = 0
        /\ logEv[k].exc = "NotFound"
        /\ log[k].status = 404

\* C10: when handle_request_failure returns from its not-retried branch,
\* the response is what the event found, status and error message
\* included; the step touches no other response, the table or the log.
C10_RestoreRoundTrip ==
    [][\A r \in Requests :
          (pc[r] = "restore" /\ pc'[r] = "idle") =>
              /\ response'[r] = frame[r].pre
              /\ \A q \in Requests \ {r} : response'[q] = response[q]
              /\ state' = state
              /\ log' = log]_vars

\* a failure has been recorded with the forced code and the response
\* holds status 0 again
C10_Witness ==
    /\ Quiescent
    /\ \E k \in Records :
          /\ logEv[k].kind = "failure"
          /\ logEv[k].raw = 0
          /\ log[k].status = 500
          /\ log[k].info = IInfo("r1")
    /\ response["r1"] = [status |-> 0, errmsg |-> Reason(0)]

\* C11: whenever a handler has left its thread, by return or by exception,
\* the response is what the event found: the forced status of the
\* not-retried failure branch never outlives the handler.
C11_RestoreEveryExit ==
    [][\A r \in Requests :
          pc'[r] = "idle" =>
              response'[r] = IF pc[r] = "idle" THEN response[r] ELSE frame[r].pre]_vars

\* C12: a terminal call that finds no entry for its id gets a KeyError,
\* which holds no duration and leaves table and log as they are; the
\* KeyError leaves the handler with the lock released, still no record
\* written and the table untouched.
C12_TerminalWithoutStart ==
    [][\A r \in Requests :
          /\ (pc[r] = "table" /\ pc'[r] # "table" /\ frame[r].status # 0
                /\ frame[r].id \notin DOMAIN state) =>
                 /\ pc'[r] = "raise"
                 /\ frame'[r].exc = "KeyError"
                 /\ frame'[r].request_time = 0
                 /\ state' = state
                 /\ log' = log
          /\ (pc[r] = "raise" /\ pc'[r] # "raise") =>
                 /\ pc'[r] = "idle"
                 /\ propagated' = [kind |-> frame[r].ev.kind, exc |-> "KeyError"]
                 /\ lock = r
                 /\ lock' = NoThread
                 /\ state' = state
                 /\ log' = log]_vars

\* the first event is a terminal one: its KeyError has reached the host,
\* the lock is free, the table empty and the restart marker the only record
C12_Witness ==
    /\ published = 1
    /\ Quiescent
    /\ propagated.kind \in Terminals
    /\ propagated.exc = "KeyError"
    /\ lock = NoThread
    /\ DOMAIN state = {}
    /\ Len(log) = 1


\* C13: a start call for an id that has an entry raises nothing, puts its
\* own time in place of the stored one and leaves one entry for the id and
\* the other entries alone; its start record is written like any other
\* (unless the write itself raises); a terminal call measures from the time
\* it finds stored, the later start's.
C13_DuplicateStart ==
    [][\A r \in Requests :
          /\ (pc[r] = "table" /\ pc'[r] # "table" /\ frame[r].ev.kind = "start"
                /\ frame[r].id \in DOMAIN state) =>
                 /\ pc'[r] = "release"
                 /\ frame'[r].exc = ""
                 /\ DOMAIN state' = DOMAIN state
                 /\ state'[frame[r].id] = frame[r].ct
                 /\ \A i \in DOMAIN state \ {frame[r].id} : state'[i] = state[i]
          /\ (pc[r] = "log" /\ pc'[r] = "idle" /\ frame[r].ev.kind = "start") =>
                 \/ log' = Append(log, [type |-> "+", status |-> 0, request_time |-> 0,
                                        request_id |-> frame[r].id, info |-> frame[r].info])
                 \/ /\ CanFail(logfile)
                    /\ log' = log
                    /\ propagated' = [kind |-> "start", exc |-> "IOError"]
          /\ (pc[r] = "table" /\ pc'[r] = "del") =>
                 frame'[r].request_time = frame[r].ct - state[frame[r].id]]_vars

\* two start records for one id, written at times 0 and 1, and its
\* terminal record at time 2 with duration 1; the table is empty
C13_Witness ==
    /\ DOMAIN state = {}
    /\ \E j1, j2, k \in Records :
          /\ j1 < j2 /\ j2 < k
          /\ log[j1].type = "+" /\ log[j2].type = "+" /\ log[k].type = "-"
          /\ log[j1].request_id = log[k].request_id
          /\ log[j2].request_id = log[k].request_id
          /\ logEv[j1].ct = 0 /\ logEv[j2].ct = 1 /\ logEv[k].ct = 2
          /\ log[k].request_time = 1


RestartRecords == {k \in Records : log[k].info = "restarted"}

\* C14: until the restart marker is written no handler is registered and
\* the sink is empty; once the handlers are registered the sink holds
\* exactly one record with info "restarted", its first, so every start and
\* terminal record comes after it; a configured activation ends with the
\* handlers registered behind the marker (or with the marker's write
\* raising: then nothing is registered and nothing written).
C14_RestartMarkerFirst ==
    /\ apc \in {"start", "marker"} => handlers = {} /\ log = <<>>
    /\ apc = "register" => handlers = {} /\ RestartRecords = {1} /\ Len(log) = 1
    /\ handlers # {} => RestartRecords = {1}
    /\ \A k \in Records : logEv[k].kind # "restart" => k > 1
    /\ (apc = "done" /\ product_config # NoConfig) =>
          \/ Cardinality(handlers) = 3 /\ RestartRecords = {1}
          \/ /\ propagated = [kind |-> "restart", exc |-> "IOError"]
             /\ handlers = {}
             /\ log = <<>>

\* the marker, then a start record and a terminal record in a rotating file
C14_Witness ==
    /\ logfile = "Rotator"
    /\ Cardinality(handlers) = 3
    /\ Len(log) = 3
    /\ log[1].info = "restarted"
    /\ log[2].type = "+"
    /\ log[3].type = "-"

\* C15 as stated: the restart marker has status 0, request_time 0,
\* request_id 0, info "restarted" and type '+'.
C15_Original ==
    \A k \in Records :
        logEv[k].kind = "restart" =>
            log[k] = [type |-> "+", status |-> 0, request_time |-> 0,
                      request_id |-> 0, info |-> "restarted"]

\* C15: the restart marker has status 0, request_time 0, request_id 0,
\* info "restarted" and type '0': the '0' that start_timelogging passes
\* lands in the type field, every other field but info is 0.
C15_MarkerFields ==
    \A k \in Records :
        logEv[k].kind = "restart" =>
            log[k] = [type |-> "0", status |-> 0, request_time |-> 0,
                      request_id |-> 0, info |-> "restarted"]

\* the marker has just been written, the handlers are not yet registered
C15_Witness ==
    /\ apc = "register"
    /\ Len(log) = 1
    /\ logEv[1].kind = "restart"
    /\ log[1].type = "0"
    /\ log[1].info = "restarted"

C17_LeakTolerance ==
    [][/\ \A i \in Ids :
             (\A r \in Requests :
                 ~(pc[r] \in {"table", "del"} /\ pc'[r] # pc[r] /\ frame[r].id = i)) =>
                 /\ (i \in DOMAIN state') = (i \in DOMAIN state)
                 /\ i \in DOMAIN state => state'[i] = state[i]
       /\ \A r \in Requests :
             (pc[r] = "table" /\ pc'[r] = "del") =>
                 /\ frame'[r].request_time = frame[r].ct - state[frame[r].id]
                 /\ frame'[r].paired = begun[frame[r].id]]_vars

\* id 1 was started at time 0 and never concluded; id 2 was started at
\* time 1 and concluded at time 2 with duration 1; id 1's entry is there
C17_Witness ==
    /\ Quiescent
    /\ DOMAIN state = {1}
    /\ state[1] = 0
    /\ calls[1] = [starts |-> 1, ends |-> 0]
    /\ \E k \in Ends(2) : logEv[k].ct = 2 /\ log[k].request_time = 1

\* C18 as stated: no failure of the sink's write leaves the start, success
\* or failure handler as an exception.
C18_SinkFailureContained ==
    ~(propagated.exc = "IOError" /\ propagated.kind \in Terminals \cup {"start"})

\* C19: the table holds an entry for an id exactly when a start call for
\* it has taken effect and no later terminal call has (a terminal call
\* between its lookup and its del still has the entry), with the time of
\* that start; when every started id has been concluded and no call is
\* under way the table is empty.
C19_TableCorrespondence ==
    /\ \A i \in Ids :
          (i \in DOMAIN state) <=>
              (i \in DOMAIN begun \/ \E r \in Requests : pc[r] = "del" /\ frame[r].id = i)
    /\ \A i \in DOMAIN state \cap DOMAIN begun : state[i] = begun[i]
    /\ DOMAIN state \subseteq Ids
    /\ (Quiescent /\ \A i \in Ids : calls[i].starts = calls[i].ends) => DOMAIN state = {}

\* both ids started and one of them concluded: the other's entry is the
\* table's only one
C19_Witness ==
    /\ Quiescent
    /\ calls[1] = [starts |-> 1, ends |-> 1]
    /\ calls[2] = [starts |-> 1, ends |-> 0]
    /\ DOMAIN state = {2}
    /\ DOMAIN begun = {2}


\* C20: under fair scheduling a thread that has called account_request and
\* stands at or inside the critical section eventually is past it (at the
\* write to the sink, or out of the handler by return or KeyError), and a
\* held lock is eventually free.
C20_NoDeadlock ==
    /\ \A r \in Requests :
          (pc[r] \in {"acquire", "table", "del", "release", "raise"})
              ~> (pc[r] \in {"log", "idle"})
    /\ (lock # NoThread) ~> (lock = NoThread)

\* one thread is on its way out with a KeyError, the lock still held,
\* while the other waits in acquire
C20_Witness ==
    \E r, q \in Requests :
        /\ pc[r] = "raise" /\ lock = r /\ frame[r].exc = "KeyError"
        /\ pc[q] = "acquire"


=============================================================================
